---------------------------- MODULE Spec2Model ----------------------------
(***************************************************************************)
(* Model of src-tauri/src/main.rs: the BLE Wi-Fi provisioning engine.      *)
(* State: AppState (cached adapter, active peripheral handle), the          *)
(* transport's view of each peripheral (link, discovered GATT table,        *)
(* subscription), the spawned status listeners, and one task per command    *)
(* family (connect_device, disconnect_device, send_* / configure_wifi,      *)
(* scan_devices), each with a program counter that stops at the code's      *)
(* await points.  The packet codec, the status decoder and the device       *)
(* matcher are operators; build_packets also has a specification of its     *)
(* own.  Spec runs the commands one at a time; SpecRace, SpecAdapter and    *)
(* SpecConfigure run them together.                                         *)
(***************************************************************************)
EXTENDS Integers, Sequences, FiniteSets, TLC

(***************************************************************************)
(* Bounds of the model                                                     *)
(***************************************************************************)
\* status listeners alive at once (spawned or running): connect_device is not
\* invoked while that many are alive
MaxListeners == 2

(***************************************************************************)
(* Program constants                                                       *)
(***************************************************************************)
PREFIX_ID == 996              \* 0x03e4
\* faulty variant of FIRST_PACKET_DATA_MAX: the 6-byte message header forgotten
FirstPacketDataMaxNoHeader == 20 - 3

FIRST_PACKET_DATA_MAX == 11
NEXT_PACKET_DATA_MAX == 17
OP_START == 40961             \* 0xA001
OP_SSID == 40962              \* 0xA002
OP_PASSWORD == 40963          \* 0xA003
OP_DONE == 40976              \* 0xA010
OP_REBOOT == 40977            \* 0xA011
SsidMax == 36
PwdMax == 64

\* peripherals the adapter knows, and one identifier it does not know
Dev == {"A", "B"}
Ids == Dev \cup {"Z"}
\* texts of the transport's errors (err.to_string())
Errs == {"E1", "E2"}
None == "none"

\* what discover_services can leave in the peripheral's GATT cache:
\* nothing yet, no provisioning service, the service without the write
\* characteristic, without the status characteristic, with a read-only status
\* characteristic, with a notifying status characteristic
Profiles == {"nosvc", "nowrite", "nostatus", "ro", "full"}

(***************************************************************************)
(* Packet codec (pure functions)                                           *)
(***************************************************************************)
Min(a, b) == IF a < b THEN a ELSE b

\* x as u8, x as u16
U8(x) == x % 256
U16(x) == x % 65536

\* u16::to_le_bytes
LeBytes(x) == << U16(x) % 256, U16(x) \div 256 >>

RECURSIVE SplitRest(_, _)
\* the while loop of split_payload, from `offset` (bytes already taken)
SplitRest(data, offset) ==
    IF offset < Len(data)
    THEN LET end == Min(offset + NEXT_PACKET_DATA_MAX, Len(data))
         IN  << SubSeq(data, offset + 1, end) >> \o SplitRest(data, end)
    ELSE << >>

\* faulty variant of split_payload: the continuation starts one byte late
split_payload_skips_byte(data) ==
    IF Len(data) = 0 THEN << << >> >>
    ELSE IF Len(data) <= FIRST_PACKET_DATA_MAX THEN << data >>
    ELSE << SubSeq(data, 1, FIRST_PACKET_DATA_MAX) >>
             \o SplitRest(data, FIRST_PACKET_DATA_MAX + 1)

split_payload(data) ==
    IF Len(data) = 0 THEN << << >> >>
    ELSE IF Len(data) <= FIRST_PACKET_DATA_MAX THEN << data >>
    ELSE << SubSeq(data, 1, FIRST_PACKET_DATA_MAX) >>
             \o SplitRest(data, FIRST_PACKET_DATA_MAX)

\* faulty variant of build_packets: raw_index is idx, not idx + 1
build_packets_zero_based(opcode, data) ==
    LET data_len == U16(Len(data))
        chunks == split_payload(data)
        raw_count == U8(Len(chunks))
    IN  [ i \in 1..Len(chunks) |->
            IF i = 1
            THEN << U8(i - 1), raw_count, U8(6 + Len(chunks[i])) >>
                   \o LeBytes(PREFIX_ID) \o LeBytes(opcode) \o LeBytes(data_len)
                   \o chunks[i]
            ELSE << U8(i - 1), raw_count, U8(Len(chunks[i])) >> \o chunks[i] ]

\* faulty variant of build_packets: raw_length of the first packet leaves out
\* the 6 header bytes
build_packets_len_plain(opcode, data) ==
    LET data_len == U16(Len(data))
        chunks == split_payload(data)
        raw_count == U8(Len(chunks))
    IN  [ i \in 1..Len(chunks) |->
            IF i = 1
            THEN << U8(i), raw_count, U8(Len(chunks[i])) >>
                   \o LeBytes(PREFIX_ID) \o LeBytes(opcode) \o LeBytes(data_len)
                   \o chunks[i]
            ELSE << U8(i), raw_count, U8(Len(chunks[i])) >> \o chunks[i] ]

build_packets(opcode, data) ==
    LET data_len == U16(Len(data))
        chunks == split_payload(data)
        raw_count == U8(Len(chunks))
    IN  [ i \in 1..Len(chunks) |->
            IF i = 1
            THEN << U8(i), raw_count, U8(6 + Len(chunks[i])) >>
                   \o LeBytes(PREFIX_ID) \o LeBytes(opcode) \o LeBytes(data_len)
                   \o chunks[i]
            ELSE << U8(i), raw_count, U8(Len(chunks[i])) >> \o chunks[i] ]

\* the opcode field of a first packet (bytes 6..7, little-endian)
PacketOpcode(p) == p[6] + 256 * p[7]

(***************************************************************************)
(* Status events                                                           *)
(***************************************************************************)
StatusCharNoNotify == [code |-> 0, name |-> "STATUS_CHAR_NO_NOTIFY", hex |-> "0x0000"]
NotifyError(err) == [code |-> 0, name |-> "NOTIFY_ERROR", hex |-> err]

status_name(code) ==
    CASE code = 256 -> "READY"
      [] code = 257 -> "START"
      [] code = 258 -> "INPROCESS"
      [] code = 259 -> "CERT_READY"
      [] code = 260 -> "SUCCESS"
      [] code = 261 -> "REBOOTING"
      [] code = 262 -> "IDLE"
      [] code = 263 -> "SSID"
      [] code = 264 -> "PWD"
      [] code = 265 -> "CERT_ERR"
      [] code = 266 -> "ERROR"
      [] OTHER -> "UNKNOWN"

HexDigits == << "0", "1", "2", "3", "4", "5", "6", "7",
                "8", "9", "A", "B", "C", "D", "E", "F" >>

\* format!("0x{code:04X}")
Hex4(code) ==
    "0x" \o HexDigits[((code \div 4096) % 16) + 1]
         \o HexDigits[((code \div 256) % 16) + 1]
         \o HexDigits[((code \div 16) % 16) + 1]
         \o HexDigits[(code % 16) + 1]

\* faulty variant of CodeOf: the two bytes read big-endian
CodeOfBigEndian(value) == 256 * value[1] + value[2]

\* u16::from_le_bytes of the first two bytes
CodeOf(value) == value[1] + 256 * value[2]

\* the body of the listener's loop for one notification: the events it emits
listen_one(n) ==
    IF ~n.status THEN << >>
    ELSE IF Len(n.value) < 2 THEN << >>
    ELSE LET code == CodeOf(n.value)
         IN  << [code |-> code, name |-> status_name(code), hex |-> Hex4(code)] >>

(***************************************************************************)
(* Device matcher (pure functions)                                         *)
(***************************************************************************)
\* strings are sequences of one-character strings; Option<T> is << >> for
\* None and << v >> for Some(v)
UpperCase == << "A", "B", "C", "D", "E", "F", "G", "H", "I", "J", "K", "L", "M",
                "N", "O", "P", "Q", "R", "S", "T", "U", "V", "W", "X", "Y", "Z" >>
LowerCase == << "a", "b", "c", "d", "e", "f", "g", "h", "i", "j", "k", "l", "m",
                "n", "o", "p", "q", "r", "s", "t", "u", "v", "w", "x", "y", "z" >>

\* str::to_ascii_lowercase
to_ascii_lowercase(name) ==
    [ i \in 1..Len(name) |->
        IF \E k \in 1..26 : UpperCase[k] = name[i]
        THEN LowerCase[CHOOSE k \in 1..26 : UpperCase[k] = name[i]]
        ELSE name[i] ]

\* str::contains
Contains(hay, needle) ==
    \E i \in 0..(Len(hay) - Len(needle)) :
        SubSeq(hay, i + 1, i + Len(needle)) = needle

matches_device_name(name) ==
    Contains(to_ascii_lowercase(name), << "n", "e", "t", "c", "f", "g" >>)

\* faulty variant of contains_marker: chunks(2) for windows(2), so the marker
\* is found at even offsets only
contains_marker_chunks(data) ==
    \E i \in 1..(Len(data) - 1) :
        i % 2 = 1 /\ << data[i], data[i + 1] >> = << 171, 10 >>

\* data.windows(2).any(|w| w == [0xAB, 0x0A])
contains_marker(data) ==
    \E i \in 1..(Len(data) - 1) : << data[i], data[i + 1] >> = << 171, 10 >>

\* the three checks of scan_devices on a peripheral's properties
Matched(name, props) ==
    \/ matches_device_name(name)
    \/ \E data \in props.manufacturer_data : contains_marker(data)
    \/ \E data \in props.service_data : contains_marker(data)

\* b.rssi.cmp(&a.rssi) = Less, with None below every Some: a sorts before b
RssiBefore(a, b) ==
    IF Len(a.rssi) = 0 THEN FALSE
    ELSE IF Len(b.rssi) = 0 THEN TRUE
    ELSE b.rssi[1] < a.rssi[1]

RECURSIVE InsertByRssi(_, _)
\* x placed before the first device it sorts before (the sort is stable)
InsertByRssi(x, sorted) ==
    IF Len(sorted) = 0 THEN << x >>
    ELSE IF RssiBefore(x, Head(sorted)) THEN << x >> \o sorted
    ELSE << Head(sorted) >> \o InsertByRssi(x, Tail(sorted))

RECURSIVE SortByRssi(_)
\* devices.sort_by(|a, b| b.rssi.cmp(&a.rssi))
SortByRssi(devices) ==
    IF Len(devices) = 0 THEN << >>
    ELSE InsertByRssi(devices[Len(devices)],
                      SortByRssi(SubSeq(devices, 1, Len(devices) - 1)))

(***************************************************************************)
(* GATT table lookups                                                      *)
(***************************************************************************)
\* peripheral.services() holds SERVICE_UUID
HasService(g) == g \in {"nowrite", "nostatus", "ro", "full"}
\* a WRITE_UUID characteristic with WRITE or WRITE_WITHOUT_RESPONSE
HasWriteChar(g) == g \in {"nostatus", "ro", "full"}
\* a STATUS_UUID characteristic with NOTIFY, INDICATE or READ
HasStatusChar(g) == g \in {"ro", "full"}
\* the status characteristic has NOTIFY or INDICATE
StatusNotifies(g) == g = "full"

\* find_characteristics: "Ok" or the error text
find_characteristics(g) ==
    IF ~HasWriteChar(g) THEN "Write characteristic not found"
    ELSE IF ~HasStatusChar(g) THEN "Status characteristic not found"
    ELSE "Ok"


(***************************************************************************)
(* State                                                                   *)
(***************************************************************************)
VARIABLES
    adapter,      \* AppState.adapter: None or the cached adapter
    peripheral,   \* AppState.peripheral: None or the active handle's device
    link,         \* link[d]: the transport's link to d is up (is_connected)
    gatt,         \* gatt[d]: what services()/characteristics() of d return
    subscribed,   \* subscribed[d]: the status characteristic of d is subscribed
    starting,     \* starting[d]: listeners spawned on d, stream not yet opened
    running,      \* running[d]: listeners on d in their consume loop
    note,         \* the physical notification being delivered, or None
    noteLeft,     \* listener streams that still hold `note` unconsumed
    noteEvents,   \* StatusEvents emitted for `note` so far
    emitted,      \* events the last step put on the "netcfg_status" channel
    conn,         \* the connect_device task
    disc,         \* the disconnect_device task
    send,         \* the send_* / configure_wifi task
    scan,         \* the scan_devices task
    codec         \* one build_packets call: its arguments and its result

vars == << adapter, peripheral, link, gatt, subscribed, starting, running,
           note, noteLeft, noteEvents, emitted, conn, disc, send, scan, codec >>

transport == << link, gatt, subscribed >>
listeners == << starting, running >>
notes == << note, noteLeft, noteEvents >>

\* no notification in flight
NoNote == [dev |-> None, status |-> FALSE, value |-> << >>]

\* a task that is not running; the fields after `result` record what the call
\* did (history of the call, cleared when the caller takes the result)
ConnIdle ==
    [pc |-> "idle", id |-> None, attempt |-> 0, last_err |-> None,
     result |-> None,
     wasUp |-> None, tries |-> 0, lastTry |-> None, disco |-> FALSE,
     subs |-> 0, diag |-> 0, spawned |-> 0, h0 |-> None]

DiscIdle ==
    [pc |-> "idle", per |-> None, result |-> None,
     linkAt |-> None, calls |-> 0, lastCall |-> None]

SendIdle ==
    [pc |-> "idle", cmd |-> None, msgs |-> << >>, k |-> 0, per |-> None,
     packets |-> << >>, idx |-> 0, attempt |-> 0, last_err |-> None,
     wres |-> None, result |-> None,
     ssidLen |-> 0, pwdLen |-> 0,
     wrote |-> FALSE, sentOk |-> << >>, offers |-> 0, txIdx |-> 0,
     txRes |-> None, issued |-> << >>, delivered |-> << >>,
     chk |-> None, stepErr |-> None, lateWrite |-> FALSE,
     targets |-> {}]

\* no scan_devices call in flight; `seen` and `devices` are the peripherals
\* examined and the DeviceInfo list built so far
ScanIdle ==
    [pc |-> "idle", peripherals |-> << >>, i |-> 0, seen |-> << >>,
     devices |-> << >>, result |-> None]

\* no build_packets call made
CodecIdle == [opcode |-> 0, data |-> << >>, packets |-> << >>, called |-> FALSE]

\* AppState::default(), no link, no task
InitState ==
    /\ scan = ScanIdle
    /\ adapter = None
    /\ peripheral = None
    /\ link = [d \in Dev |-> FALSE]
    /\ gatt = [d \in Dev |-> None]
    /\ subscribed = [d \in Dev |-> FALSE]
    /\ starting = [d \in Dev |-> 0]
    /\ running = [d \in Dev |-> 0]
    /\ note = NoNote
    /\ noteLeft = 0
    /\ noteEvents = 0
    /\ emitted = << >>
    /\ conn = ConnIdle
    /\ disc = DiscIdle
    /\ send = SendIdle

Init == InitState /\ codec = CodecIdle

\* the caller issues one command at a time (spec section 5: a single logical
\* command in flight)
Quiescent == conn.pc = "idle" /\ disc.pc = "idle" /\ send.pc = "idle"

LiveListeners == starting["A"] + starting["B"] + running["A"] + running["B"]

(***************************************************************************)
(* connect_device                                                          *)
(***************************************************************************)
\* faulty variant of ConnectAttempts: the loop written `0..=3`
ConnectAttemptsOneMore == 3 + 1

\* attempts of the connect loop, `for _ in 0..3`
ConnectAttempts == 3

ConnFail(c, err) == [c EXCEPT !.pc = "done", !.result = err]

\* the command is invoked
ConnectCall(id) ==
    /\ conn.pc = "idle"
    /\ LiveListeners < MaxListeners
    /\ conn' = [ConnIdle EXCEPT !.pc = "adapter", !.id = id, !.h0 = peripheral]
    /\ emitted' = << >>
    /\ UNCHANGED << adapter, peripheral, transport, listeners, notes, disc, send, scan, codec >>

\* ensure_adapter, the cached case and the miss
CAdapterCheck ==
    /\ conn.pc = "adapter"
    /\ conn' = [conn EXCEPT !.pc = IF adapter # None THEN "peripherals" ELSE "acquire"]
    /\ emitted' = << >>
    /\ UNCHANGED << adapter, peripheral, transport, listeners, notes, disc, send, scan, codec >>

\* ensure_adapter: Manager::new, manager.adapters(), the first adapter, and
\* its store in AppState.adapter
CAcquire ==
    /\ conn.pc = "acquire"
    /\ \/ \E e \in Errs :
             /\ conn' = ConnFail(conn, e)
             /\ UNCHANGED adapter
       \/ /\ conn' = ConnFail(conn, "No BLE adapters found")
          /\ UNCHANGED adapter
       \/ /\ adapter' = "hci0"
          /\ conn' = [conn EXCEPT !.pc = "peripherals"]
    /\ emitted' = << >>
    /\ UNCHANGED << peripheral, transport, listeners, notes, disc, send, scan, codec >>

\* adapter.peripherals() and the search for the identifier
CPeripherals ==
    /\ conn.pc = "peripherals"
    /\ \/ \E e \in Errs : conn' = ConnFail(conn, e)
       \/ conn' = IF conn.id \in Dev
                  THEN [conn EXCEPT !.pc = "is_connected"]
                  ELSE ConnFail(conn, "Device not found")
    /\ emitted' = << >>
    /\ UNCHANGED << adapter, peripheral, transport, listeners, notes, disc, send, scan, codec >>

\* peripheral.is_connected(): an already connected peripheral skips the loop
CIsConnected ==
    /\ conn.pc = "is_connected"
    /\ \/ \E e \in Errs : conn' = ConnFail(conn, e)
       \/ conn' = [conn EXCEPT !.pc = IF link[conn.id] THEN "discover" ELSE "connect",
                               !.wasUp = IF link[conn.id] THEN "up" ELSE "down"]
    /\ emitted' = << >>
    /\ UNCHANGED << adapter, peripheral, transport, listeners, notes, disc, send, scan, codec >>

\* faulty variant of CConnect: the handle is stored as soon as the link is
\* up, before discovery and the characteristic lookup
CConnectPublishes ==
    /\ conn.pc = "connect"
    /\ \/ /\ link' = [link EXCEPT ![conn.id] = TRUE]
          /\ peripheral' = conn.id
          /\ conn' = [conn EXCEPT !.pc = "discover", !.last_err = None,
                                  !.tries = @ + 1, !.lastTry = "Ok"]
       \/ \E e \in Errs :
             /\ UNCHANGED << link, peripheral >>
             /\ conn' = IF conn.attempt + 1 < ConnectAttempts
                        THEN [conn EXCEPT !.attempt = @ + 1, !.last_err = e,
                                          !.tries = @ + 1, !.lastTry = e]
                        ELSE [conn EXCEPT !.attempt = @ + 1, !.last_err = e,
                                          !.tries = @ + 1, !.lastTry = e,
                                          !.pc = "done", !.result = e]
    /\ emitted' = << >>
    /\ UNCHANGED << adapter, gatt, subscribed, listeners, notes, disc, send, scan, codec >>

\* one iteration of the connect loop; after the last one, the check of last_err
CConnect ==
    /\ conn.pc = "connect"
    /\ \/ /\ link' = [link EXCEPT ![conn.id] = TRUE]
          /\ conn' = [conn EXCEPT !.pc = "discover", !.last_err = None,
                                  !.tries = @ + 1, !.lastTry = "Ok"]
       \/ \E e \in Errs :
             /\ UNCHANGED link
             /\ conn' = IF conn.attempt + 1 < ConnectAttempts
                        THEN [conn EXCEPT !.attempt = @ + 1, !.last_err = e,
                                          !.tries = @ + 1, !.lastTry = e]
                        ELSE [conn EXCEPT !.attempt = @ + 1, !.last_err = e,
                                          !.tries = @ + 1, !.lastTry = e,
                                          !.pc = "done", !.result = e]
    /\ emitted' = << >>
    /\ UNCHANGED << adapter, peripheral, gatt, subscribed, listeners, notes, disc, send, scan, codec >>

\* peripheral.discover_services(): fills the GATT cache of the peripheral
CDiscover ==
    /\ conn.pc = "discover"
    /\ \/ \E e \in Errs :
             /\ conn' = [ConnFail(conn, e) EXCEPT !.disco = TRUE]
             /\ UNCHANGED gatt
       \/ \E g \in Profiles :
             /\ link[conn.id]
             /\ gatt' = [gatt EXCEPT ![conn.id] = g]
             /\ conn' = [conn EXCEPT !.pc = "resolve", !.disco = TRUE]
    /\ emitted' = << >>
    /\ UNCHANGED << adapter, peripheral, link, subscribed, listeners, notes, disc, send, scan, codec >>

\* the service check, find_characteristics, and the branch on the status
\* characteristic's properties (the diagnostic event when it cannot notify)
CResolve ==
    /\ conn.pc = "resolve"
    /\ LET g == gatt[conn.id] IN
       IF ~HasService(g)
       THEN conn' = ConnFail(conn, "NETCFG_BLE service not found") /\ emitted' = << >>
       ELSE IF find_characteristics(g) # "Ok"
       THEN conn' = ConnFail(conn, find_characteristics(g)) /\ emitted' = << >>
       ELSE IF StatusNotifies(g)
       THEN conn' = [conn EXCEPT !.pc = "subscribe"] /\ emitted' = << >>
       ELSE /\ conn' = [conn EXCEPT !.pc = "publish", !.diag = @ + 1]
            /\ emitted' = << StatusCharNoNotify >>
    /\ UNCHANGED << adapter, peripheral, transport, listeners, notes, disc, send, scan, codec >>

\* peripheral.subscribe(&status_char)
CSubscribe ==
    /\ conn.pc = "subscribe"
    /\ \/ \E e \in Errs :
             /\ conn' = ConnFail(conn, e)
             /\ UNCHANGED subscribed
       \/ /\ link[conn.id]
          /\ subscribed' = [subscribed EXCEPT ![conn.id] = TRUE]
          /\ conn' = [conn EXCEPT !.pc = "publish", !.subs = @ + 1]
    /\ emitted' = << >>
    /\ UNCHANGED << adapter, peripheral, link, gatt, listeners, notes, disc, send, scan, codec >>

\* the handle is stored, the listener is spawned, Ok(()) is returned
CPublish ==
    /\ conn.pc = "publish"
    /\ peripheral' = conn.id
    /\ starting' = [starting EXCEPT ![conn.id] = @ + 1]
    /\ conn' = [conn EXCEPT !.pc = "done", !.result = "Ok", !.spawned = @ + 1]
    /\ emitted' = << >>
    /\ UNCHANGED << adapter, transport, running, notes, disc, send, scan, codec >>

\* the caller takes the result
ConnectReturn ==
    /\ conn.pc = "done"
    /\ conn' = ConnIdle
    /\ emitted' = << >>
    /\ UNCHANGED << adapter, peripheral, transport, listeners, notes, disc, send, scan, codec >>

connect_device ==
    \/ CAdapterCheck \/ CAcquire \/ CPeripherals \/ CIsConnected \/ CConnect
    \/ CDiscover \/ CResolve \/ CSubscribe \/ CPublish \/ ConnectReturn


(***************************************************************************)
(* get_connected_peripheral, as its two halves: the read of the handle     *)
(* under the lock, then is_connected() on the clone                        *)
(***************************************************************************)
\* the handle read: the error text, or "Ok" when a handle is stored
HandleRead(h) == IF h = None THEN "No device connected" ELSE "Ok"

\* the answer for a link the transport reports up or down
LinkCheck(up) == IF up THEN "Ok" ELSE "Device is not connected"

(***************************************************************************)
(* disconnect_device                                                       *)
(***************************************************************************)
DiscFail(t, err) == [t EXCEPT !.pc = "done", !.result = err]

DisconnectCall ==
    /\ disc.pc = "idle"
    /\ disc' = [DiscIdle EXCEPT !.pc = "get"]
    /\ emitted' = << >>
    /\ UNCHANGED << adapter, peripheral, transport, listeners, notes, conn, send, scan, codec >>

DGet ==
    /\ disc.pc = "get"
    /\ disc' = IF HandleRead(peripheral) # "Ok"
               THEN DiscFail(disc, HandleRead(peripheral))
               ELSE [disc EXCEPT !.pc = "is_connected", !.per = peripheral]
    /\ emitted' = << >>
    /\ UNCHANGED << adapter, peripheral, transport, listeners, notes, conn, send, scan, codec >>

DIsConnected ==
    /\ disc.pc = "is_connected"
    /\ \/ \E e \in Errs : disc' = DiscFail(disc, e)
       \/ LET up == LinkCheck(link[disc.per])
              t  == [disc EXCEPT !.linkAt = IF link[disc.per] THEN "up" ELSE "down"]
          IN  disc' = IF up # "Ok" THEN DiscFail(t, up)
                      ELSE [t EXCEPT !.pc = "disconnect"]
    /\ emitted' = << >>
    /\ UNCHANGED << adapter, peripheral, transport, listeners, notes, conn, send, scan, codec >>

\* peripheral.disconnect() and its `?`
DDisconnect ==
    /\ disc.pc = "disconnect"
    /\ \/ \E e \in Errs :
             /\ disc' = [DiscFail(disc, e) EXCEPT !.calls = @ + 1, !.lastCall = e]
             /\ UNCHANGED << link, subscribed >>
       \/ /\ link' = [link EXCEPT ![disc.per] = FALSE]
          /\ subscribed' = [subscribed EXCEPT ![disc.per] = FALSE]
          /\ disc' = [disc EXCEPT !.pc = "clear", !.calls = @ + 1, !.lastCall = "Ok"]
    /\ emitted' = << >>
    /\ UNCHANGED << adapter, peripheral, gatt, listeners, notes, conn, send, scan, codec >>

\* faulty variant of DClear: Ok(()) is returned and the handle is left in place
DClearKeepsHandle ==
    /\ disc.pc = "clear"
    /\ disc' = [disc EXCEPT !.pc = "done", !.result = "Ok"]
    /\ emitted' = << >>
    /\ UNCHANGED << adapter, peripheral, transport, listeners, notes, conn, send, scan, codec >>

\* *state.peripheral.lock().await = None; Ok(())
DClear ==
    /\ disc.pc = "clear"
    /\ peripheral' = None
    /\ disc' = [disc EXCEPT !.pc = "done", !.result = "Ok"]
    /\ emitted' = << >>
    /\ UNCHANGED << adapter, transport, listeners, notes, conn, send, scan, codec >>

DisconnectReturn ==
    /\ disc.pc = "done"
    /\ disc' = DiscIdle
    /\ emitted' = << >>
    /\ UNCHANGED << adapter, peripheral, transport, listeners, notes, conn, send, scan, codec >>

disconnect_device ==
    \/ DGet \/ DIsConnected \/ DDisconnect \/ DClear \/ DisconnectReturn

(***************************************************************************)
(* send_start, send_ssid, send_password, send_done, send_reboot,           *)
(* configure_wifi, send_opcode, write_packets                              *)
(***************************************************************************)
\* the bytes of an argument string of n bytes
Payload(n) == [i \in 1..n |-> (7 * i) % 256]

\* argument strings the caller passes: one accepted and one oversized each
\* (the accepted SSID takes 2 packets, the accepted password 3)
Ssids == {Payload(12), Payload(SsidMax + 1)}
Pwds == {Payload(29), Payload(PwdMax + 1)}

\* faulty variant of Validate: configure_wifi checks the SSID only and leaves
\* the password to be checked later
ValidateSsidFirst(cmd, ssid, pwd) ==
    IF cmd \in {"send_ssid", "configure"} /\ Len(ssid) > SsidMax
    THEN "SSID length exceeds 36 bytes"
    ELSE IF cmd = "send_password" /\ Len(pwd) > PwdMax
    THEN "Password length exceeds 64 bytes"
    ELSE "Ok"

\* the length checks at the head of send_ssid, send_password, configure_wifi:
\* "Ok" or the error text
Validate(cmd, ssid, pwd) ==
    IF cmd \in {"send_ssid", "configure"} /\ Len(ssid) > SsidMax
    THEN "SSID length exceeds 36 bytes"
    ELSE IF cmd \in {"send_password", "configure"} /\ Len(pwd) > PwdMax
    THEN "Password length exceeds 64 bytes"
    ELSE "Ok"

Msg(op, data) == [op |-> op, data |-> data]

\* the send_opcode calls of a command, in the order the command makes them
Messages(cmd, ssid, pwd) ==
    CASE cmd = "send_start"    -> << Msg(OP_START, << >>) >>
      [] cmd = "send_ssid"     -> << Msg(OP_SSID, ssid) >>
      [] cmd = "send_password" -> << Msg(OP_PASSWORD, pwd) >>
      [] cmd = "send_done"     -> << Msg(OP_DONE, << >>) >>
      [] cmd = "send_reboot"   -> << Msg(OP_REBOOT, << >>) >>
      [] cmd = "configure"     -> << Msg(OP_START, << >>), Msg(OP_SSID, ssid),
                                     Msg(OP_PASSWORD, pwd), Msg(OP_DONE, << >>) >>

\* faulty variant of WriteAttempts: the loop written `0..=3`
WriteAttemptsOneMore == 3 + 1

\* attempts per packet in write_packets, `for _ in 0..=2`
WriteAttempts == 3

\* faulty variant of SendFail: the result of a send_opcode that is not the
\* last one is dropped (`let _ = ...` for `...?`), so the command goes on
SendFailContinue(s, err) ==
    IF s.k < Len(s.msgs)
    THEN [s EXCEPT !.k = @ + 1, !.pc = "get"]
    ELSE [s EXCEPT !.pc = "done", !.result = err]

\* a send_opcode that returned Err: the `?` of the command returns it
SendFail(s, err) == [s EXCEPT !.pc = "done", !.result = err]

\* a send_opcode that returned Ok: the next one, or Ok(()) after the last
MessageDone(s) ==
    IF s.k < Len(s.msgs)
    THEN [s EXCEPT !.k = @ + 1, !.pc = "get"]
    ELSE [s EXCEPT !.pc = "done", !.result = "Ok"]

\* faulty variant of write_step: the Ok arm lacks its `break`, so the retry
\* loop goes on writing the packet it has just sent
write_step_no_break(s, res) ==
    IF s.attempt + 1 < WriteAttempts
    THEN IF res = "Ok"
         THEN [s EXCEPT !.last_err = None, !.attempt = @ + 1]
         ELSE [s EXCEPT !.last_err = res, !.attempt = @ + 1]
    ELSE IF res # "Ok"
         THEN [s EXCEPT !.last_err = res, !.attempt = @ + 1, !.wres = res]
         ELSE IF s.idx < Len(s.packets)
         THEN [s EXCEPT !.last_err = None, !.idx = @ + 1, !.attempt = 0]
         ELSE [s EXCEPT !.last_err = None, !.wres = "Ok"]

\* write_packets after the transport answered `res` ("Ok" or an error text)
\* to the write of packets[idx]: wres is None while the loops go on, then the
\* value write_packets returns
write_step(s, res) ==
    IF res = "Ok"
    THEN IF s.idx < Len(s.packets)
         THEN [s EXCEPT !.last_err = None, !.idx = @ + 1, !.attempt = 0]
         ELSE [s EXCEPT !.last_err = None, !.wres = "Ok"]
    ELSE IF s.attempt + 1 < WriteAttempts
         THEN [s EXCEPT !.last_err = res, !.attempt = @ + 1]
         ELSE [s EXCEPT !.last_err = res, !.attempt = @ + 1, !.wres = res]

\* the command is invoked; its length checks run before anything else
SendCall(cmd, ssid, pwd) ==
    /\ send.pc = "idle"
    /\ LET v == Validate(cmd, ssid, pwd)
           s == [SendIdle EXCEPT !.cmd = cmd, !.ssidLen = Len(ssid),
                                 !.pwdLen = Len(pwd)]
       IN  send' = IF v # "Ok"
                   THEN [s EXCEPT !.pc = "done", !.result = v]
                   ELSE [s EXCEPT !.pc = "get", !.k = 1,
                                  !.msgs = Messages(cmd, ssid, pwd)]
    /\ emitted' = << >>
    /\ UNCHANGED << adapter, peripheral, transport, listeners, notes, conn, disc, scan, codec >>

\* send_opcode: the handle read of get_connected_peripheral
SGet ==
    /\ send.pc = "get"
    /\ send' = IF HandleRead(peripheral) # "Ok"
               THEN [SendFail(send, HandleRead(peripheral))
                        EXCEPT !.stepErr = HandleRead(peripheral),
                               !.chk = IF peripheral = None THEN "nohandle" ELSE "handle"]
               ELSE [send EXCEPT !.pc = "is_connected", !.per = peripheral,
                                 !.chk = IF peripheral = None THEN "nohandle" ELSE "handle"]
    /\ emitted' = << >>
    /\ UNCHANGED << adapter, peripheral, transport, listeners, notes, conn, disc, scan, codec >>

\* the state of the handle's link when send_opcode checks it
LinkSeen == IF link[send.per] THEN "up" ELSE "down"

\* send_opcode: is_connected() of get_connected_peripheral, then
\* find_characteristics and build_packets
SIsConnected ==
    /\ send.pc = "is_connected"
    /\ \/ \E e \in Errs :
             send' = [SendFail(send, e) EXCEPT !.stepErr = e, !.chk = LinkSeen]
       \/ LET up == LinkCheck(link[send.per])
              fc == find_characteristics(gatt[send.per])
              m  == send.msgs[send.k]
          IN  send' =
                IF up # "Ok"
                THEN [SendFail(send, up) EXCEPT !.stepErr = up, !.chk = LinkSeen]
                ELSE IF fc # "Ok"
                THEN [SendFail(send, fc) EXCEPT !.stepErr = fc, !.chk = LinkSeen]
                ELSE [send EXCEPT !.pc = "write", !.chk = LinkSeen,
                                  !.packets = build_packets(m.op, m.data),
                                  !.idx = 1, !.attempt = 0, !.last_err = None,
                                  !.wres = None,
                                  !.sentOk = << >>, !.offers = 0,
                                  !.txIdx = 0, !.txRes = None]
    /\ emitted' = << >>
    /\ UNCHANGED << adapter, peripheral, transport, listeners, notes, conn, disc, scan, codec >>

\* one peripheral.write of write_packets, and what follows its answer up to
\* the next await on shared state
SWrite ==
    /\ send.pc = "write"
    /\ \E res \in {"Ok"} \cup Errs :
          /\ res = "Ok" => link[send.per]
          /\ LET s1 == write_step(send, res)
                 s2 == IF s1.wres = None THEN s1
                       ELSE IF s1.wres = "Ok" THEN MessageDone(s1)
                       ELSE [SendFail(s1, s1.wres) EXCEPT !.stepErr = s1.wres]
                 pkt == send.packets[send.idx]
             IN  send' =
                   [s2 EXCEPT
                      !.wrote = TRUE,
                      !.lateWrite = send.lateWrite \/ send.stepErr # None,
                      !.txIdx = send.idx,
                      !.txRes = res,
                      !.offers = IF s1.idx = send.idx THEN send.offers + 1 ELSE 0,
                      !.sentOk = IF res = "Ok" THEN Append(send.sentOk, pkt)
                                 ELSE send.sentOk,
                      !.targets = IF res = "Ok" THEN send.targets \cup {send.per}
                                  ELSE send.targets,
                      !.issued = IF send.idx = 1 /\ send.offers = 0
                                 THEN Append(send.issued, PacketOpcode(send.packets[1]))
                                 ELSE send.issued,
                      !.delivered = IF s1.wres = "Ok"
                                    THEN Append(send.delivered, PacketOpcode(send.packets[1]))
                                    ELSE send.delivered]
    /\ emitted' = << >>
    /\ UNCHANGED << adapter, peripheral, transport, listeners, notes, conn, disc, scan, codec >>

SendReturn ==
    /\ send.pc = "done"
    /\ send' = SendIdle
    /\ emitted' = << >>
    /\ UNCHANGED << adapter, peripheral, transport, listeners, notes, conn, disc, scan, codec >>

send_command == SGet \/ SIsConnected \/ SWrite \/ SendReturn

(***************************************************************************)
(* scan_devices                                                            *)
(***************************************************************************)
\* advertised local names: "MyNetCfg-1", "NETCFG", "other", "netcf"
Names ==
    { << "M", "y", "N", "e", "t", "C", "f", "g", "-", "1" >>,
      << "N", "E", "T", "C", "F", "G" >>,
      << "o", "t", "h", "e", "r" >>,
      << "n", "e", "t", "c", "f" >> }

\* the values of a manufacturer_data or service_data map
DataSets ==
    { {},
      { << 0, 0 >> },
      { << 0, 0 >>, << 1, 171, 10, 2 >> },
      { << 171 >>, << 10, 171 >>, << 171, 0, 10 >> } }

\* PeripheralProperties as scan_devices reads them
Properties ==
    [ local_name : { << >> } \cup { << n >> : n \in Names },
      manufacturer_data : DataSets,
      service_data : DataSets,
      rssi : { << >>, << -40 >>, << -70 >> } ]

\* what peripheral.properties() can answer: None or Some(props)
Adverts == { << >> } \cup { << p >> : p \in Properties }

\* the same with one advertisement only
AdvertsFew ==
    { << >>,
      << [ local_name |-> << >>, manufacturer_data |-> {},
           service_data |-> { << 0, 0 >>, << 1, 171, 10, 2 >> },
           rssi |-> << -40 >> ] >> }

ScanFail(t, err) == [t EXCEPT !.pc = "done", !.result = err]

ScanCall ==
    /\ scan.pc = "idle"
    /\ scan' = [ScanIdle EXCEPT !.pc = "adapter"]
    /\ emitted' = << >>
    /\ UNCHANGED << adapter, peripheral, transport, listeners, notes, conn, disc, send, codec >>

\* ensure_adapter, the cached case and the miss
ScAdapterCheck ==
    /\ scan.pc = "adapter"
    /\ scan' = [scan EXCEPT !.pc = IF adapter # None THEN "start_scan" ELSE "acquire"]
    /\ emitted' = << >>
    /\ UNCHANGED << adapter, peripheral, transport, listeners, notes, conn, disc, send, codec >>

\* ensure_adapter: Manager::new, manager.adapters(), the first adapter, and
\* its store in AppState.adapter
ScAcquire ==
    /\ scan.pc = "acquire"
    /\ \/ \E e \in Errs :
             /\ scan' = ScanFail(scan, e)
             /\ UNCHANGED adapter
       \/ /\ scan' = ScanFail(scan, "No BLE adapters found")
          /\ UNCHANGED adapter
       \/ /\ adapter' = "hci0"
          /\ scan' = [scan EXCEPT !.pc = "start_scan"]
    /\ emitted' = << >>
    /\ UNCHANGED << peripheral, transport, listeners, notes, conn, disc, send, codec >>

\* adapter.start_scan(), then the sleep of timeout_ms
ScStartScan ==
    /\ scan.pc = "start_scan"
    /\ \/ \E e \in Errs : scan' = ScanFail(scan, e)
       \/ scan' = [scan EXCEPT !.pc = "peripherals"]
    /\ emitted' = << >>
    /\ UNCHANGED << adapter, peripheral, transport, listeners, notes, conn, disc, send, codec >>

\* adapter.peripherals(): the peripherals in the order the adapter lists them;
\* with none to examine the loop is skipped
ScPeripherals ==
    /\ scan.pc = "peripherals"
    /\ \/ \E e \in Errs : scan' = ScanFail(scan, e)
       \/ \E ps \in { << "A", "B" >>, << "B", "A" >> } :
             scan' = [scan EXCEPT !.pc = "properties", !.peripherals = ps, !.i = 1]
    /\ emitted' = << >>
    /\ UNCHANGED << adapter, peripheral, transport, listeners, notes, conn, disc, send, codec >>

\* one iteration of the loop: peripheral.properties() answers `answer`
\* (None: the peripheral is skipped) or fails, which ends the command
ScProperties(answer) ==
    /\ scan.pc = "properties"
    /\ LET id == scan.peripherals[scan.i]
           next == IF scan.i < Len(scan.peripherals) THEN "properties" ELSE "stop"
       IN  \/ \E e \in Errs : scan' = ScanFail(scan, e)
           \/ /\ answer = << >>
              /\ scan' = [scan EXCEPT !.pc = next, !.i = @ + 1,
                                      !.seen = Append(@, [id |-> id, props |-> answer])]
           \/ /\ answer # << >>
              /\ LET props == answer[1]
                     name == IF props.local_name = << >>
                             THEN << "U", "n", "k", "n", "o", "w", "n" >>
                             ELSE props.local_name[1]
                     info == [id |-> id, name |-> name, rssi |-> props.rssi,
                              matched |-> Matched(name, props)]
                 IN  scan' = [scan EXCEPT !.pc = next, !.i = @ + 1,
                                         !.seen = Append(@, [id |-> id, props |-> answer]),
                                         !.devices = Append(@, info)]
    /\ emitted' = << >>
    /\ UNCHANGED << adapter, peripheral, transport, listeners, notes, conn, disc, send, codec >>

\* adapter.stop_scan() (its result is dropped), the sort, Ok(devices)
ScStop ==
    /\ scan.pc = "stop"
    /\ scan' = [scan EXCEPT !.pc = "done", !.result = "Ok",
                            !.devices = SortByRssi(@)]
    /\ emitted' = << >>
    /\ UNCHANGED << adapter, peripheral, transport, listeners, notes, conn, disc, send, codec >>

ScanReturn ==
    /\ scan.pc = "done"
    /\ scan' = ScanIdle
    /\ emitted' = << >>
    /\ UNCHANGED << adapter, peripheral, transport, listeners, notes, conn, disc, send, codec >>

\* the steps of a scan_devices call whose peripherals answer from `adverts`
scan_devices(adverts) ==
    \/ ScAdapterCheck \/ ScAcquire \/ ScStartScan \/ ScPeripherals
    \/ \E answer \in adverts : ScProperties(answer)
    \/ ScStop \/ ScanReturn

(***************************************************************************)
(* listen_status_notifications, one task per spawn                         *)
(***************************************************************************)
\* notifications the peripheral can push: from the status characteristic or
\* from another one, with its value
Notes ==
    { [status |-> TRUE,  value |-> << 0, 1 >>],
      [status |-> TRUE,  value |-> << 4 >>],
      [status |-> TRUE,  value |-> << 255, 255, 9 >>],
      [status |-> FALSE, value |-> << 0, 1 >>] }

\* faulty variant of ListenerStart: the Err arm lacks its `return`, so the task
\* reports the error and goes on as a running listener
ListenerStartNoReturn(d) ==
    /\ starting[d] > 0
    /\ starting' = [starting EXCEPT ![d] = @ - 1]
    /\ \/ /\ running' = [running EXCEPT ![d] = @ + 1]
          /\ emitted' = << >>
       \/ \E e \in Errs :
             /\ emitted' = << NotifyError(e) >>
             /\ running' = [running EXCEPT ![d] = @ + 1]
    /\ UNCHANGED << adapter, peripheral, transport, notes, conn, disc, send, scan, codec >>

\* peripheral.notifications(): the stream opens, or the error is reported as
\* an event and the task ends
ListenerStart(d) ==
    /\ starting[d] > 0
    /\ starting' = [starting EXCEPT ![d] = @ - 1]
    /\ \/ /\ running' = [running EXCEPT ![d] = @ + 1]
          /\ emitted' = << >>
       \/ \E e \in Errs :
             /\ emitted' = << NotifyError(e) >>
             /\ UNCHANGED running
    /\ UNCHANGED << adapter, peripheral, transport, notes, conn, disc, send, scan, codec >>

\* one listener takes the notification from its stream
ListenerNext ==
    /\ noteLeft > 0
    /\ noteLeft' = noteLeft - 1
    /\ emitted' = listen_one(note)
    /\ noteEvents' = noteEvents + Len(listen_one(note))
    /\ UNCHANGED << adapter, peripheral, transport, listeners, note, conn, disc, send, scan, codec >>

\* the stream of a listener ends once the device is disconnected
ListenerEnd(d) ==
    /\ running[d] > 0
    /\ ~link[d]
    /\ note.dev = d => noteLeft = 0
    /\ running' = [running EXCEPT ![d] = @ - 1]
    /\ emitted' = << >>
    /\ UNCHANGED << adapter, peripheral, transport, starting, notes, conn, disc, send, scan, codec >>

(***************************************************************************)
(* The peripherals and the radio                                           *)
(***************************************************************************)
\* peripheral d pushes a notification: every open stream on d gets it
Deliver(d, n) ==
    /\ noteLeft = 0
    /\ link[d]
    /\ n.status => subscribed[d]
    /\ note' = [dev |-> d, status |-> n.status, value |-> n.value]
    /\ noteLeft' = running[d]
    /\ noteEvents' = 0
    /\ emitted' = << >>
    /\ UNCHANGED << adapter, peripheral, transport, listeners, conn, disc, send, scan, codec >>

\* the link to d drops (out of range, power)
LinkLoss(d) ==
    /\ link[d]
    /\ link' = [link EXCEPT ![d] = FALSE]
    /\ subscribed' = [subscribed EXCEPT ![d] = FALSE]
    /\ emitted' = << >>
    /\ UNCHANGED << adapter, peripheral, gatt, listeners, notes, conn, disc, send, scan, codec >>

(***************************************************************************)
(* The system                                                              *)
(***************************************************************************)
\* the caller invokes a command when no other is in flight
Invoke ==
    /\ Quiescent
    /\ \/ \E id \in Ids : ConnectCall(id)
       \/ DisconnectCall
       \/ \E cmd \in {"send_start", "send_done", "send_reboot"} :
             SendCall(cmd, << >>, << >>)
       \/ \E ssid \in Ssids : SendCall("send_ssid", ssid, << >>)
       \/ \E pwd \in Pwds : SendCall("send_password", << >>, pwd)
       \/ \E ssid \in Ssids, pwd \in Pwds : SendCall("configure", ssid, pwd)

\* the radio and the listener tasks' lifecycle
Links ==
    \/ \E d \in Dev : ListenerStart(d)
    \/ \E d \in Dev : ListenerEnd(d)
    \/ \E d \in Dev : LinkLoss(d)

\* the peripherals' notifications and the listeners' consumption of them
Notifications ==
    \/ \E d \in Dev, n \in Notes : Deliver(d, n)
    \/ ListenerNext

\* the commands, one at a time, and the loss of links; the spawned listeners
\* and the notifications are left to SpecNotify (the command paths neither
\* read nor write what the listeners handle)
Next ==
    \/ Invoke
    \/ connect_device
    \/ disconnect_device
    \/ send_command
    \/ \E d \in Dev : LinkLoss(d)

Spec == Init /\ [][Next]_vars

\* connection lifecycle of one peripheral with its notifications
InvokeNotify ==
    /\ Quiescent
    /\ \/ ConnectCall("A")
       \/ DisconnectCall

NextNotify ==
    InvokeNotify \/ connect_device \/ disconnect_device \/ Links \/ Notifications

SpecNotify == Init /\ [][NextNotify]_vars

(***************************************************************************)
(* build_packets on its own: every opcode, a payload of every length       *)
(***************************************************************************)
\* longest payload given to build_packets
MaxPayloadLen == 80

Opcodes == {OP_START, OP_SSID, OP_PASSWORD, OP_DONE, OP_REBOOT}

InitCodec ==
    /\ InitState
    /\ \E op \in Opcodes, n \in 0..MaxPayloadLen :
          codec = [CodecIdle EXCEPT !.opcode = op, !.data = Payload(n)]

\* the call build_packets(opcode, data)
Encode ==
    /\ ~codec.called
    /\ codec' = [codec EXCEPT !.packets = build_packets(codec.opcode, codec.data),
                              !.called = TRUE]
    /\ UNCHANGED << adapter, peripheral, transport, listeners, notes, emitted,
                    conn, disc, send, scan >>

SpecCodec == InitCodec /\ [][Encode]_vars

(***************************************************************************)
(* One listener in its consume loop, every kind of notification            *)
(***************************************************************************)
\* first two bytes of a value: the codes 0x0100..0x010B, 0x00FF, 0x0001,
\* 0x0200 and 0xFFFF
CodeBytes ==
    { << lo, 1 >> : lo \in 0..11 } \cup { << 255, 0 >>, << 1, 0 >>, << 0, 2 >>, << 255, 255 >> }

\* values of 0, 1, 2 and 3 bytes
NoteValues ==
    { << >>, << 0 >>, << 1 >> } \cup CodeBytes \cup { v \o << 9 >> : v \in CodeBytes }

\* notifications from the status characteristic and from another one
AllNotes == [status : BOOLEAN, value : NoteValues]

\* connect_device("A") has returned Ok on a peripheral with a notifying status
\* characteristic and its listener has opened its stream
InitListen ==
    /\ adapter = "hci0"
    /\ peripheral = "A"
    /\ link = [d \in Dev |-> d = "A"]
    /\ gatt = [d \in Dev |-> IF d = "A" THEN "full" ELSE None]
    /\ subscribed = [d \in Dev |-> d = "A"]
    /\ starting = [d \in Dev |-> 0]
    /\ running = [d \in Dev |-> IF d = "A" THEN 1 ELSE 0]
    /\ note = NoNote
    /\ noteLeft = 0
    /\ noteEvents = 0
    /\ emitted = << >>
    /\ conn = ConnIdle
    /\ disc = DiscIdle
    /\ send = SendIdle
    /\ scan = ScanIdle
    /\ codec = CodecIdle

NextListen ==
    \/ \E n \in AllNotes : Deliver("A", n)
    \/ ListenerNext
    \/ LinkLoss("A")
    \/ ListenerEnd("A")

SpecListen == InitListen /\ [][NextListen]_vars

(***************************************************************************)
(* scan_devices on its own, every advertisement                            *)
(***************************************************************************)
NextScan == ScanCall \/ scan_devices(Adverts)

SpecScan == Init /\ [][NextScan]_vars

(***************************************************************************)
(* Commands in flight together: the runtime runs every invoked command as  *)
(* its own task, and the tasks interleave at their await points            *)
(***************************************************************************)
\* connect_device and disconnect_device invoked at any time, each while the
\* other may be running; the links can drop
InvokeRace ==
    \/ \E id \in Ids : ConnectCall(id)
    \/ DisconnectCall

NextRace ==
    \/ InvokeRace
    \/ connect_device
    \/ disconnect_device
    \/ \E d \in Dev : LinkLoss(d)

SpecRace == Init /\ [][NextRace]_vars

\* scan_devices and connect_device invoked at any time: the two callers of
\* ensure_adapter
InvokeAdapter ==
    \/ \E id \in Ids : ConnectCall(id)
    \/ ScanCall

NextAdapter ==
    \/ InvokeAdapter
    \/ connect_device
    \/ scan_devices(AdvertsFew)

SpecAdapter == Init /\ [][NextAdapter]_vars

\* configure_wifi invoked at any time, while connect_device and
\* disconnect_device calls (one of the two at a time) come and go
InvokeConfigure ==
    \/ disc.pc = "idle" /\ \E id \in Dev : ConnectCall(id)
    \/ conn.pc = "idle" /\ DisconnectCall
    \/ \E ssid \in Ssids, pwd \in Pwds : SendCall("configure", ssid, pwd)

NextConfigure ==
    \/ InvokeConfigure
    \/ connect_device
    \/ disconnect_device
    \/ send_command

SpecConfigure == Init /\ [][NextConfigure]_vars

(***************************************************************************)
(* Properties                                                              *)
(***************************************************************************)
\* C1: in every write_packets run, under every pattern of transport write
\* failures, the packets whose write succeeded are a prefix of the input
\* packets, in order, each once (the input packets are pairwise different,
\* so a second successful send of a packet would break the prefix), and when
\* write_packets returns Ok that prefix is the whole input.
C1_SentIsPrefixOfPackets ==
    /\ \A i, j \in 1..Len(send.packets) :
          i # j => send.packets[i] # send.packets[j]
    /\ Len(send.sentOk) <= Len(send.packets)
    /\ send.sentOk = SubSeq(send.packets, 1, Len(send.sentOk))
    /\ send.wres = "Ok" => send.sentOk = send.packets

\* a three-packet message delivered, its last packet on the third attempt
C1_Witness ==
    /\ send.wres = "Ok"
    /\ Len(send.packets) = 3
    /\ send.sentOk = send.packets
    /\ send.offers = 3

\* C2: write_packets offers each packet to the transport at most 3 times; a
\* successful write moves on to the next packet; when the 3 attempts of a
\* packet fail, the call returns the text of the third failure and no later
\* packet has been offered.
C2_ThreeAttemptsThenLastError ==
    /\ send.offers <= 3
    /\ (send.pc = "write" /\ send.txRes = "Ok") =>
          /\ send.idx = send.txIdx + 1
          /\ send.offers = 0
    /\ (send.pc = "done" /\ send.wres \in Errs) =>
          /\ send.offers = 3
          /\ send.txRes \in Errs
          /\ send.result = send.txRes
          /\ send.txIdx = send.idx
          /\ Len(send.sentOk) = send.idx - 1

\* the second of three packets failed three times, the last time with another
\* error than the one the call did not return
C2_Witness ==
    /\ send.pc = "done"
    /\ send.wres = "E2"
    /\ send.result = "E2"
    /\ send.idx = 2
    /\ Len(send.packets) = 3

\* C3: configure_wifi issues START, SSID, PASSWORD, DONE in that order, a
\* message only after the one before it was delivered in full; at the first
\* failing step it returns that step's error, and after a failed step it makes
\* no transport write and takes no further step.  ConfigureOrder is the order
\* the property names.
ConfigureOrder == << OP_START, OP_SSID, OP_PASSWORD, OP_DONE >>

C3_ConfigureInOrderAbortsAtFirstFailure ==
    send.cmd = "configure" =>
       /\ Len(send.issued) <= 4
       /\ send.issued = SubSeq(ConfigureOrder, 1, Len(send.issued))
       /\ Len(send.delivered) <= Len(send.issued)
       /\ send.delivered = SubSeq(send.issued, 1, Len(send.delivered))
       /\ Len(send.issued) - Len(send.delivered) <= 1
       /\ ~send.lateWrite
       /\ send.stepErr # None =>
             /\ send.pc = "done"
             /\ send.result = send.stepErr
             /\ Len(send.delivered) < 4
       /\ (send.pc = "done" /\ send.result = "Ok") => send.delivered = ConfigureOrder

\* START and SSID were delivered, the PASSWORD step failed in the transport
C3_Witness ==
    /\ send.cmd = "configure"
    /\ send.pc = "done"
    /\ send.delivered = << OP_START, OP_SSID >>
    /\ send.issued = << OP_START, OP_SSID, OP_PASSWORD >>
    /\ send.result \in Errs
    /\ send.wres = send.result

\* C4: a command whose precondition fails makes no transport write and returns
\* an error: an SSID over 36 bytes (send_ssid, configure_wifi), a password
\* over 64 bytes (send_password, configure_wifi, although START comes first),
\* no active handle at the check, the handle's link down at the check.
C4_FailedPreconditionWritesNothing ==
    /\ ( \/ send.cmd \in {"send_ssid", "configure"} /\ send.ssidLen > 36
         \/ send.cmd \in {"send_password", "configure"} /\ send.pwdLen > 64 ) =>
          /\ send.pc = "done"
          /\ ~send.wrote
          /\ send.result \in {"SSID length exceeds 36 bytes",
                              "Password length exceeds 64 bytes"}
    /\ (send.chk = "nohandle" \/ send.chk = "down") =>
          /\ send.pc = "done"
          /\ send.result \notin {None, "Ok"}
          /\ send.chk = "nohandle" => send.result = "No device connected"
          /\ Len(send.issued) < send.k
          /\ send.k = 1 => ~send.wrote

\* configure_wifi with a good SSID and an oversized password, refused while a
\* connected peripheral with a write characteristic is the active handle
C4_Witness ==
    /\ send.cmd = "configure"
    /\ send.ssidLen <= 36
    /\ send.pwdLen > 64
    /\ send.pc = "done"
    /\ ~send.wrote
    /\ peripheral # None
    /\ link[peripheral]
    /\ find_characteristics(gatt[peripheral]) = "Ok"

\* a send command refused because the link of the active handle is down
C4_WitnessLinkDown ==
    /\ send.cmd = "send_ssid"
    /\ send.pc = "done"
    /\ send.chk = "down"
    /\ send.result = "Device is not connected"
    /\ ~send.wrote

\* C5: connect_device makes no transport connect attempt when is_connected
\* answers true; otherwise it makes at most 3, none after a success, and when
\* all 3 fail it returns the text of the third failure without having run
\* service discovery.
C5_ConnectRetriesAtMostThree ==
    /\ conn.tries <= 3
    /\ conn.wasUp = "up" => conn.tries = 0
    /\ conn.lastTry = "Ok" => conn.pc # "connect"
    /\ (conn.pc = "done" /\ conn.lastTry \in Errs) =>
          /\ conn.tries = 3
          /\ conn.result = conn.lastTry
          /\ ~conn.disco

\* three failed attempts, the call returned the last error
C5_Witness ==
    /\ conn.pc = "done"
    /\ conn.wasUp = "down"
    /\ conn.tries = 3
    /\ conn.lastTry = "E2"
    /\ conn.result = "E2"

\* C6: connect_device writes the active handle only on reaching READY: while
\* the call runs and when it returns an error the handle has the value it had
\* at the call, and when it returns Ok the handle is the peripheral asked for.
C6_HandleWrittenOnlyOnReady ==
    /\ conn.pc \notin {"idle", "done"} => peripheral = conn.h0
    /\ (conn.pc = "done" /\ conn.result # "Ok") => peripheral = conn.h0
    /\ (conn.pc = "done" /\ conn.result = "Ok") => peripheral = conn.id

\* connect to B failed for a missing service while A was the active handle
C6_Witness ==
    /\ conn.pc = "done"
    /\ conn.id = "B"
    /\ conn.result = "NETCFG_BLE service not found"
    /\ conn.h0 = "A"
    /\ peripheral = "A"
    /\ link["B"]

\* C7: a different peripheral becomes the active handle only after the
\* previously active one was disconnected: when the handle passes from one
\* peripheral to another, the earlier one is not left connected.
C7_SupersededOnlyAfterDisconnect ==
    [][ (peripheral # None /\ peripheral' # None /\ peripheral' # peripheral)
           => ~link'[peripheral] ]_vars

\* C8: each physical notification results in at most one StatusEvent on the
\* channel, whatever connect and disconnect calls came before.
C8_AtMostOneEventPerNotification == noteEvents <= 1

\* C9: a successful connect_device on a peripheral whose status characteristic
\* notifies subscribes and starts one listener; on one whose status
\* characteristic is read-only it emits one STATUS_CHAR_NO_NOTIFY event, does
\* not subscribe, starts no listener, and still publishes the handle.
C9_ListenerOnlyWhenNotifying ==
    (conn.pc = "done" /\ conn.result = "Ok") =>
       IF StatusNotifies(gatt[conn.id])
       THEN conn.subs = 1 /\ conn.spawned = 1 /\ conn.diag = 0
       ELSE /\ conn.diag = 1
            /\ conn.subs = 0
            /\ conn.spawned = 0
            /\ peripheral = conn.id

\* C10 as stated: no handle gives "No device connected", a link reported down
\* gives "Device is not connected", neither issues a transport disconnect, and
\* once the transport disconnect was issued the handle is absent at return.
C10_HandleAbsentOnceDisconnectIssued ==
    disc.pc = "done" =>
       /\ disc.per = None => (disc.result = "No device connected" /\ disc.calls = 0)
       /\ disc.linkAt = "down" =>
             (disc.result = "Device is not connected" /\ disc.calls = 0)
       /\ disc.calls > 0 => peripheral = None

\* C10 amended: as above, but the handle is cleared (and Ok returned) only
\* when the transport disconnect succeeded; when it failed, the call returns
\* its error and the handle keeps the value it had.
C10_HandleClearedWhenDisconnectSucceeds ==
    disc.pc = "done" =>
       /\ disc.per = None => (disc.result = "No device connected" /\ disc.calls = 0)
       /\ disc.linkAt = "down" =>
             (disc.result = "Device is not connected" /\ disc.calls = 0)
       /\ disc.calls <= 1
       /\ disc.calls = 1 => disc.linkAt = "up"
       /\ disc.lastCall = "Ok" => (disc.result = "Ok" /\ peripheral = None)
       /\ disc.lastCall \in Errs =>
             (disc.result = disc.lastCall /\ peripheral = disc.per)
       /\ disc.result = "Ok" => disc.lastCall = "Ok"

\* the transport disconnect failed: its error is returned, the handle stays
C10_Witness ==
    /\ disc.pc = "done"
    /\ disc.calls = 1
    /\ disc.lastCall \in Errs
    /\ disc.result = disc.lastCall
    /\ peripheral # None
    /\ peripheral = disc.per

\* C11: for every opcode and payload, the 16-bit little-endian field at bytes
\* 8..9 of the first packet is the payload's length, and the bytes after the
\* 3-byte prefix of each packet (after the 6-byte header too in the first),
\* concatenated in packet order, are the payload.
RECURSIVE C11_Reassemble(_, _)
C11_Reassemble(packets, k) ==
    IF k > Len(packets) THEN << >>
    ELSE SubSeq(packets[k], IF k = 1 THEN 10 ELSE 4, Len(packets[k]))
            \o C11_Reassemble(packets, k + 1)

C11_LengthFieldAndPayloadRoundTrip ==
    codec.called =>
       /\ Len(codec.packets) >= 1
       /\ Len(codec.packets[1]) >= 9
       /\ codec.packets[1][8] + 256 * codec.packets[1][9] = Len(codec.data)
       /\ C11_Reassemble(codec.packets, 1) = codec.data

\* a 64-byte payload encoded for the PASSWORD opcode
C11_Witness ==
    /\ codec.called
    /\ codec.opcode = OP_PASSWORD
    /\ Len(codec.data) = 64
    /\ Len(codec.packets) = 5

\* C12: build_packets returns n = ceil(max(0, len - 11) / 17) + 1 packets (one
\* for an empty payload); the first byte of the k-th packet is k and the
\* second byte of every packet is n.
C12_PacketCount ==
    LET len == Len(codec.data)
        over == IF len > 11 THEN len - 11 ELSE 0
    IN  ((over + 16) \div 17) + 1

C12_CountAndIndexBytes ==
    codec.called =>
       /\ Len(codec.packets) = C12_PacketCount
       /\ Len(codec.data) = 0 => Len(codec.packets) = 1
       /\ \A k \in 1..Len(codec.packets) :
             /\ codec.packets[k][1] = k
             /\ codec.packets[k][2] = C12_PacketCount

\* a payload one byte over two full packets: three packets
C12_Witness ==
    /\ codec.called
    /\ Len(codec.data) = 29
    /\ Len(codec.packets) = 3
    /\ codec.packets[3][1] = 3
    /\ codec.packets[3][2] = 3

\* payload bytes the k-th packet carries
PayloadBytesIn(k) == Len(codec.packets[k]) - (IF k = 1 THEN 9 ELSE 3)

\* C13 as stated: the third byte of every packet is the number of payload
\* bytes the packet carries, at most 11 in the first packet and at most 17 in
\* a continuation packet; an empty payload gives one header-only packet whose
\* third byte is 0.
C13_LengthByteIsPayloadBytes ==
    codec.called =>
       /\ \A k \in 1..Len(codec.packets) :
             /\ codec.packets[k][3] = PayloadBytesIn(k)
             /\ PayloadBytesIn(k) <= (IF k = 1 THEN 11 ELSE 17)
       /\ Len(codec.data) = 0 =>
             /\ Len(codec.packets) = 1
             /\ Len(codec.packets[1]) = 9
             /\ codec.packets[1][3] = 0

\* C13 amended: the third byte of every packet is the number of bytes that
\* follow the 3-byte prefix in that packet: the 6 header bytes plus the payload
\* bytes carried (at most 11) in the first packet, the payload bytes carried
\* (at most 17) in a continuation packet; an empty payload gives one
\* header-only packet whose third byte is 6.
C13_LengthByteCountsBytesAfterPrefix ==
    codec.called =>
       /\ \A k \in 1..Len(codec.packets) :
             /\ codec.packets[k][3] = Len(codec.packets[k]) - 3
             /\ PayloadBytesIn(k) >= 0
             /\ PayloadBytesIn(k) <= (IF k = 1 THEN 11 ELSE 17)
       /\ Len(codec.data) = 0 =>
             /\ Len(codec.packets) = 1
             /\ Len(codec.packets[1]) = 9
             /\ codec.packets[1][3] = 6

\* the empty payload of START: one packet of 9 bytes, third byte 6
C13_Witness ==
    /\ codec.called
    /\ codec.opcode = OP_START
    /\ Len(codec.data) = 0
    /\ codec.packets = << << 1, 1, 6, 228, 3, 1, 160, 0, 0 >> >>

\* C20: for a payload of 0 to 64 bytes, every packet is at most 20 bytes long
\* and the narrowed fields hold their exact values: the index byte is the
\* packet's position, the count byte the number of packets (at most 5), the
\* length byte the number of bytes after the prefix (at most 17), and the
\* 16-bit field the payload's length.
C20_PacketsFitAndFieldsExact ==
    (codec.called /\ Len(codec.data) <= 64) =>
       /\ Len(codec.packets) <= 5
       /\ Len(split_payload(codec.data)) = Len(codec.packets)
       /\ codec.packets[1][8] + 256 * codec.packets[1][9] = Len(codec.data)
       /\ \A k \in 1..Len(codec.packets) :
             /\ Len(codec.packets[k]) <= 20
             /\ codec.packets[k][1] = k
             /\ codec.packets[k][2] = Len(codec.packets)
             /\ codec.packets[k][3] = Len(codec.packets[k]) - 3
             /\ codec.packets[k][3] <= 17

\* the longest accepted payload: five packets, the first four of 20 bytes
C20_Witness ==
    /\ codec.called
    /\ Len(codec.data) = 64
    /\ Len(codec.packets) = 5
    /\ \A k \in 1..4 : Len(codec.packets[k]) = 20
    /\ codec.packets[1][3] = 17
    /\ codec.packets[5][3] = 2

\* C14: a listener that takes a notification from its stream emits nothing
\* when the notification is not from the status characteristic or its value
\* has fewer than 2 bytes; otherwise it emits one event whose code is the
\* little-endian 16-bit value of the first two bytes and whose name is the
\* table's entry for 0x0100..0x010A and UNKNOWN for any other code; in every
\* case the listener goes on running.
C14_Names ==
    << "READY", "START", "INPROCESS", "CERT_READY", "SUCCESS", "REBOOTING",
       "IDLE", "SSID", "PWD", "CERT_ERR", "ERROR" >>

C14_DecodesOrIgnores ==
    [][ noteLeft' = noteLeft - 1 =>
          /\ running' = running
          /\ IF ~note.status \/ Len(note.value) < 2
             THEN emitted' = << >>
             ELSE LET code == note.value[1] + 256 * note.value[2] IN
                  /\ Len(emitted') = 1
                  /\ emitted'[1].code = code
                  /\ emitted'[1].name = IF code \in 256..266
                                        THEN C14_Names[code - 255]
                                        ELSE "UNKNOWN" ]_vars

\* a 3-byte status notification 0A 01 09 was decoded as ERROR and the
\* listener is still in its loop
C14_Witness ==
    /\ note.status
    /\ note.value = << 10, 1, 9 >>
    /\ noteLeft = 0
    /\ emitted = << [code |-> 266, name |-> "ERROR", hex |-> "0x010A"] >>
    /\ running["A"] = 1

\* C15: a peripheral whose properties scan_devices has read is in the device
\* list once, marked matched exactly when its advertised name contains
\* "netcfg" in any mix of upper and lower case, or a manufacturer-data value
\* holds 0xAB, 0x0A at consecutive positions, or a service-data value does;
\* one that matches none of the three is in the list with matched = FALSE.
C15_NameHasNetcfg(local_name) ==
    /\ local_name # << >>
    /\ LET name == local_name[1]
           lower == << "n", "e", "t", "c", "f", "g" >>
           upper == << "N", "E", "T", "C", "F", "G" >>
       IN  \E off \in 0..(Len(name) - 6) :
              \A j \in 1..6 : name[off + j] \in {lower[j], upper[j]}

C15_HasMarker(values) ==
    \E v \in values : \E i \in 1..(Len(v) - 1) : v[i] = 171 /\ v[i + 1] = 10

C15_MatchedIffAnyOfThree ==
    \A k \in 1..Len(scan.seen) :
       scan.seen[k].props # << >> =>
          LET p == scan.seen[k].props[1]
              entries == { n \in 1..Len(scan.devices) :
                             scan.devices[n].id = scan.seen[k].id }
          IN  /\ Cardinality(entries) = 1
              /\ \A n \in entries :
                    scan.devices[n].matched =
                       ( \/ C15_NameHasNetcfg(p.local_name)
                         \/ C15_HasMarker(p.manufacturer_data)
                         \/ C15_HasMarker(p.service_data) )

\* a finished scan: one device named "netcf" without service data, matched by
\* its manufacturer data alone (the marker at offset 1); the other, named
\* "other", reported unmatched
C15_Witness ==
    /\ scan.pc = "done"
    /\ scan.result = "Ok"
    /\ Len(scan.devices) = 2
    /\ \E k \in 1..2 :
          /\ scan.seen[k].props # << >>
          /\ scan.seen[k].props[1].local_name = << << "n", "e", "t", "c", "f" >> >>
          /\ scan.seen[k].props[1].service_data = {}
          /\ \E n \in 1..2 : scan.devices[n].id = scan.seen[k].id /\ scan.devices[n].matched
    /\ \E n \in 1..2 :
          /\ scan.devices[n].name = << "o", "t", "h", "e", "r" >>
          /\ ~scan.devices[n].matched

\* C16: disconnect_device clears only the handle it read and disconnected: the
\* active handle never passes from a peripheral to absent through a
\* disconnect_device that read and disconnected another peripheral, which
\* would leave the newly published peripheral connected and untracked.
C16_DisconnectClearsOnlyWhatItRead ==
    [][ (peripheral # None /\ peripheral' = None) => peripheral = disc.per ]_vars

\* C17: once an adapter acquisition has succeeded (the adapter is cached), no
\* scan_devices or connect_device call performs another acquisition.
C17_AdapterAcquiredOnce ==
    [][ adapter # None =>
          /\ ~(conn.pc = "acquire" /\ conn'.pc # "acquire")
          /\ ~(scan.pc = "acquire" /\ scan'.pc # "acquire") ]_vars

\* C19: the transport writes of one configure_wifi call all go to the same
\* peripheral, whatever connect_device and disconnect_device calls run
\* meanwhile.
C19_ConfigureWritesOnePeripheral ==
    send.cmd = "configure" => Cardinality(send.targets) <= 1

\* C18: a listener leaves its start either with its stream open and no event,
\* or, when the stream cannot be established, with exactly one event of code
\* 0 and name NOTIFY_ERROR whose hex field is the error text, after which it
\* is gone: it is not among the running listeners and takes no notification.
\* A listener is spawned only by the step in which connect_device reports
\* success, and its failure leaves that report as it was.
C18_NotifyErrorThenEnd ==
    [][ /\ \A d \in Dev :
             starting'[d] < starting[d] =>
                /\ \/ /\ running'[d] = running[d] + 1
                      /\ emitted' = << >>
                   \/ /\ running' = running
                      /\ Len(emitted') = 1
                      /\ emitted'[1].code = 0
                      /\ emitted'[1].name = "NOTIFY_ERROR"
                      /\ emitted'[1].hex \in Errs
                /\ notes' = notes
                /\ conn' = conn
        /\ \A d \in Dev :
             starting'[d] > starting[d] =>
                /\ conn'.pc = "done"
                /\ conn'.result = "Ok" ]_vars

\* the listener of a connect_device call that reported Ok has failed to open
\* its stream, while a notification of the peripheral is still unconsumed by
\* an earlier listener
C18_Witness ==
    /\ emitted = << NotifyError("E2") >>
    /\ conn.pc = "done"
    /\ conn.result = "Ok"
    /\ starting["A"] = 0
    /\ running["A"] = 1
    /\ noteLeft = 1

=============================================================================
